---- MODULE Spec2Model ----
(***************************************************************************)
(* A model of yt-summarizer: the token-budget chunker                      *)
(* (yt_summarizer/utils/token_counter.py), the transcript selector         *)
(* (yt_summarizer/core/transcript.py), the helpers                         *)
(* (yt_summarizer/utils/helpers.py) and the pipeline                       *)
(* (yt_summarizer/core/summarizer.py, core/summary.py, cli.py).            *)
(*                                                                         *)
(* A Python str is a sequence of one-character strings.  The whitespace    *)
(* class \s is represented by " " and "\n", the sentence enders [.!?] by    *)
(* ".".                                                                    *)
(***************************************************************************)
EXTENDS Integers, Sequences, FiniteSets, TLC

VARIABLES
    \* ---- TokenCounter.split_text_into_chunks ----
    text,            \* argument text
    budget,          \* argument max_tokens_per_chunk
    enc,             \* self.encoding: which encoding count_tokens uses
    sentences,       \* local sentences
    si,              \* position of the for-loop over sentences (1-based)
    current_chunk,   \* local current_chunk
    chunks,          \* local chunks (the value returned)
    words,           \* local words
    wi,              \* position of the for-loop over words (1-based)
    temp_chunk,      \* local temp_chunk
    cpc,             \* where split_text_into_chunks stands
    \* ---- TranscriptProcessor.get_subtitles ----
    tracks,                    \* transcript_list, in its iteration order
    listOk,                    \* whether ytt_api.list(video_id) returns
    language_priority,         \* self.settings.language_priority
    prefer_manual_transcripts, \* self.settings.prefer_manual_transcripts
    spc,             \* where get_subtitles stands
    li,              \* position of the for-loop over language_priority
    ti,              \* position of the for-loop over transcript_list
    result,          \* the value get_subtitles returned
    raised,          \* the exception type that left get_subtitles
    fetchedOk,       \* positions of the tracks whose fetch() returned
    tried,           \* the (state, language) attempts made, in order
    \* ---- sanitize_filename ----
    filename,        \* argument filename
    sanitized,       \* the value sanitize_filename returned
    fpc,             \* where sanitize_filename stands
    \* ---- is_playlist_url, extract_video_id ----
    url,             \* argument url
    is_playlist,     \* the value is_playlist_url returned (FALSE before the call)
    extracted,       \* how extract_video_id ended (NotCalled before the call)
    upc,             \* which of the two functions have been called
    \* ---- TranscriptProcessor._format_transcript ----
    transcript_data, \* argument transcript_data: the texts of the caption entries
    formatted_text,  \* the value returned
    tpc,             \* "start", "done" ("idle" when the formatter is not run)
    \* ---- cli.main ----
    entry,           \* what is run: a command of main, or a method called directly
    cli_url,         \* args.url, or the url argument of the method called
    mpc,             \* where main stands
    exit_status,     \* the value main returned (-1 before it returns)
    main_caught,     \* the exception type an except clause of main caught
    ctor_raised,     \* the exception type that left YouTubeSubtitleSummarizer()
    \* ---- YouTubeSubtitleSummarizer.process_playlist ----
    ppc,             \* where process_playlist stands
    video_ids,       \* local video_ids
    vidx,            \* position of the for-loop over video_ids
    output_files,    \* local output_files (the value returned)
    p_raised,        \* the exception type that left process_playlist
    attempts,        \* the process_video calls made by the loop, with their outcome
    \* ---- YouTubeSubtitleSummarizer.process_video ----
    vpc,             \* where process_video stands
    video_url,       \* argument video_url
    video_title,     \* local video_title
    pv_chunks,       \* local chunks
    summaries,       \* local summaries
    ci,              \* position of the for-loop over chunks
    calls,           \* the summarize_chunk calls made, with their arguments and outcome
    final_document,  \* local final_document
    output_file,     \* local output_file (the value returned)
    v_raised,        \* the exception type that left process_video
    v_cause,         \* the exception type that was raised inside process_video
    \* ---- the settings instances ----
    config_given,    \* args.config is set
    settings_of,     \* module -> the instance its global name settings is bound to
    tp_settings,     \* the instance TranscriptProcessor.settings was taken from
    sg_settings,     \* the instance SummaryGenerator.settings is
    budget_from,     \* the instance process_video read max_tokens_per_chunk from
    \* ---- the output directory ----
    files,           \* file path -> content
    writes           \* the paths of the documents written, in order

chunkVars == <<text, budget, enc, sentences, si, current_chunk, chunks,
               words, wi, temp_chunk, cpc>>

selVars == <<tracks, listOk, language_priority, prefer_manual_transcripts,
             spc, li, ti, result, raised, fetchedOk, tried>>

sanVars == <<filename, sanitized, fpc>>

urlVars == <<url, is_playlist, extracted, upc>>

fmtVars == <<transcript_data, formatted_text, tpc>>

mainVars == <<entry, cli_url, mpc, exit_status, main_caught, ctor_raised>>

playlistVars == <<ppc, video_ids, vidx, output_files, p_raised, attempts>>

videoVars == <<vpc, video_url, video_title, pv_chunks, summaries, ci, calls,
               final_document, output_file, v_raised, v_cause>>

fileVars == <<files, writes>>

cfgVars == <<config_given, settings_of, tp_settings, sg_settings, budget_from>>

appVars == <<mainVars, playlistVars, videoVars, fileVars, cfgVars>>

vars == <<chunkVars, selVars, sanVars, urlVars, fmtVars, appVars>>

\* what the actions of one component leave alone
notChunkVars == <<selVars, sanVars, urlVars, fmtVars, appVars>>
notSelVars == <<chunkVars, sanVars, urlVars, fmtVars, appVars>>
notSanVars == <<chunkVars, selVars, urlVars, fmtVars, appVars>>
notUrlVars == <<chunkVars, selVars, sanVars, fmtVars, appVars>>
notFmtVars == <<chunkVars, selVars, sanVars, urlVars, appVars>>
notAppVars == <<chunkVars, selVars, sanVars, urlVars, fmtVars>>

(***************************************************************************)
(* Bounds of the model.                                                    *)
(***************************************************************************)
MaxLen == 6
MaxBudget == 3
MaxTracks == 3
MaxPriority == 2
MaxName == 4
MaxVideos == 2
MaxChunks == 2
MaxEntries == 3

Chars == {"a", ".", " "}
Texts == UNION {[1..n -> Chars] : n \in 0..MaxLen}
Budgets == 0..MaxBudget
Encodings == {"words", "chars"}
Languages == {"en", "fr"}

(***************************************************************************)
(* String helpers: the str methods and regular expressions the code uses.  *)
(***************************************************************************)
IsSpace(c) == c \in {" ", "\n"}

IsSentenceEnd(c) == c = "."

\* str.strip()
RECURSIVE LStrip(_)
LStrip(s) == IF s # <<>> /\ IsSpace(Head(s)) THEN LStrip(Tail(s)) ELSE s

RECURSIVE RStrip(_)
RStrip(s) ==
    IF s # <<>> /\ IsSpace(s[Len(s)]) THEN RStrip(SubSeq(s, 1, Len(s) - 1)) ELSE s

Strip(s) == RStrip(LStrip(s))

\* str.split(): the maximal runs of non-whitespace characters, in order
RECURSIVE SplitWordsFrom(_, _, _, _)
SplitWordsFrom(s, i, cur, acc) ==
    IF i > Len(s)
    THEN IF cur = <<>> THEN acc ELSE Append(acc, cur)
    ELSE IF IsSpace(s[i])
         THEN SplitWordsFrom(s, i + 1, <<>>,
                             IF cur = <<>> THEN acc ELSE Append(acc, cur))
         ELSE SplitWordsFrom(s, i + 1, Append(cur, s[i]), acc)

SplitWords(s) == SplitWordsFrom(s, 1, <<>>, <<>>)

\* the first position >= i of s that holds no whitespace (Len(s) + 1 if none)
RECURSIVE SkipSpace(_, _)
SkipSpace(s, i) ==
    IF i <= Len(s) /\ IsSpace(s[i]) THEN SkipSpace(s, i + 1) ELSE i

\* re.split(r"(?<=[.!?])\s+", s): cut at every whitespace run that directly
\* follows a sentence ender; the run is dropped; a run ending s leaves a
\* trailing empty piece
RECURSIVE SplitSentencesFrom(_, _, _, _)
SplitSentencesFrom(s, i, cur, acc) ==
    IF i > Len(s)
    THEN Append(acc, cur)
    ELSE IF IsSpace(s[i]) /\ i > 1 /\ IsSentenceEnd(s[i - 1])
         THEN SplitSentencesFrom(s, SkipSpace(s, i), <<>>, Append(acc, cur))
         ELSE SplitSentencesFrom(s, i + 1, Append(cur, s[i]), acc)

SplitSentences(s) == SplitSentencesFrom(s, 1, <<>>, <<>>)

\* a + " " + b
SpaceJoin(a, b) == a \o <<" ">> \o b

(***************************************************************************)
(* TokenCounter.count_tokens: len(self.encoding.encode(text)).  The        *)
(* encoding is an attribute of the counter: "words" is the encoding the    *)
(* tests install (one token per whitespace-delimited word), "chars" is a   *)
(* byte-level encoding without merges (one token per character, whitespace *)
(* included), the coarsest case of the subword encoding tiktoken builds.   *)
(***************************************************************************)
Encode(e, s) == IF e = "words" THEN SplitWords(s) ELSE s

count_tokens(s) == Len(Encode(enc, s))

(***************************************************************************)
(* TokenCounter.split_text_into_chunks, one action per branch of its loops *)
(***************************************************************************)
ChunkInit ==
    /\ text \in Texts
    /\ budget \in Budgets
    /\ enc \in Encodings
    /\ sentences = <<>>
    /\ si = 0
    /\ current_chunk = <<>>
    /\ chunks = <<>>
    /\ words = <<>>
    /\ wi = 0
    /\ temp_chunk = <<>>
    /\ cpc = "start"

sentence == sentences[si]

\* a variant of test_chunk that joins without the separating space
test_chunk_NoSpace ==
    IF current_chunk # <<>> THEN current_chunk \o sentence ELSE sentence

test_chunk ==
    IF current_chunk # <<>> THEN SpaceJoin(current_chunk, sentence) ELSE sentence

word == words[wi]

test_word_chunk ==
    IF temp_chunk # <<>> THEN SpaceJoin(temp_chunk, word) ELSE word

\* lines 50-53
SplitStart ==
    /\ cpc = "start"
    /\ sentences' = SplitSentences(text)
    /\ chunks' = <<>>
    /\ current_chunk' = <<>>
    /\ si' = 1
    /\ cpc' = "sentences"
    /\ UNCHANGED <<text, budget, enc, words, wi, temp_chunk>>
    /\ UNCHANGED notChunkVars

\* lines 81-82: the sentence fits
SentenceFits ==
    /\ cpc = "sentences"
    /\ si <= Len(sentences)
    /\ ~(count_tokens(test_chunk) > budget)
    /\ current_chunk' = test_chunk
    /\ si' = si + 1
    /\ UNCHANGED <<text, budget, enc, sentences, chunks, words, wi, temp_chunk, cpc>>
    /\ UNCHANGED notChunkVars

\* a variant of SentenceFlush that leaves the sentence to the next pass, with
\* an empty buffer
SentenceFlush_Retry ==
    /\ cpc = "sentences"
    /\ si <= Len(sentences)
    /\ count_tokens(test_chunk) > budget
    /\ current_chunk # <<>>
    /\ chunks' = Append(chunks, Strip(current_chunk))
    /\ current_chunk' = <<>>
    /\ UNCHANGED <<text, budget, enc, sentences, si, words, wi, temp_chunk, cpc>>
    /\ UNCHANGED notChunkVars

\* lines 59-62: overflow with a non-empty buffer
SentenceFlush ==
    /\ cpc = "sentences"
    /\ si <= Len(sentences)
    /\ count_tokens(test_chunk) > budget
    /\ current_chunk # <<>>
    /\ chunks' = Append(chunks, Strip(current_chunk))
    /\ current_chunk' = sentence
    /\ si' = si + 1
    /\ UNCHANGED <<text, budget, enc, sentences, words, wi, temp_chunk, cpc>>
    /\ UNCHANGED notChunkVars

\* a variant of SentenceToWords that keeps the sentence whole
SentenceToWords_Whole ==
    /\ cpc = "sentences"
    /\ si <= Len(sentences)
    /\ count_tokens(test_chunk) > budget
    /\ current_chunk = <<>>
    /\ current_chunk' = sentence
    /\ si' = si + 1
    /\ UNCHANGED <<text, budget, enc, sentences, chunks, words, wi, temp_chunk, cpc>>
    /\ UNCHANGED notChunkVars

\* lines 63-66: overflow with an empty buffer, enter the word loop
SentenceToWords ==
    /\ cpc = "sentences"
    /\ si <= Len(sentences)
    /\ count_tokens(test_chunk) > budget
    /\ current_chunk = <<>>
    /\ words' = SplitWords(sentence)
    /\ temp_chunk' = <<>>
    /\ wi' = 1
    /\ cpc' = "words"
    /\ UNCHANGED <<text, budget, enc, sentences, si, current_chunk, chunks>>
    /\ UNCHANGED notChunkVars

\* lines 77-78: the word fits
WordFits ==
    /\ cpc = "words"
    /\ wi <= Len(words)
    /\ ~(count_tokens(test_word_chunk) > budget)
    /\ temp_chunk' = test_word_chunk
    /\ wi' = wi + 1
    /\ UNCHANGED <<text, budget, enc, sentences, si, current_chunk, chunks, words, cpc>>
    /\ UNCHANGED notChunkVars

\* lines 71-74: overflow with a non-empty word buffer
WordFlush ==
    /\ cpc = "words"
    /\ wi <= Len(words)
    /\ count_tokens(test_word_chunk) > budget
    /\ temp_chunk # <<>>
    /\ chunks' = Append(chunks, Strip(temp_chunk))
    /\ temp_chunk' = word
    /\ wi' = wi + 1
    /\ UNCHANGED <<text, budget, enc, sentences, si, current_chunk, words, cpc>>
    /\ UNCHANGED notChunkVars

\* a variant of WordAlone that does not emit the word
WordAlone_Dropped ==
    /\ cpc = "words"
    /\ wi <= Len(words)
    /\ count_tokens(test_word_chunk) > budget
    /\ temp_chunk = <<>>
    /\ wi' = wi + 1
    /\ UNCHANGED <<text, budget, enc, sentences, si, current_chunk, chunks, words,
                   temp_chunk, cpc>>
    /\ UNCHANGED notChunkVars

\* lines 75-76: a word that overflows on its own
WordAlone ==
    /\ cpc = "words"
    /\ wi <= Len(words)
    /\ count_tokens(test_word_chunk) > budget
    /\ temp_chunk = <<>>
    /\ chunks' = Append(chunks, word)
    /\ wi' = wi + 1
    /\ UNCHANGED <<text, budget, enc, sentences, si, current_chunk, words, temp_chunk, cpc>>
    /\ UNCHANGED notChunkVars

\* lines 79-80: the word loop ends
WordsEnd ==
    /\ cpc = "words"
    /\ wi > Len(words)
    /\ current_chunk' = IF temp_chunk # <<>> THEN temp_chunk ELSE current_chunk
    /\ si' = si + 1
    /\ cpc' = "sentences"
    /\ UNCHANGED <<text, budget, enc, sentences, chunks, words, wi, temp_chunk>>
    /\ UNCHANGED notChunkVars

\* lines 84-87: the sentence loop ends
FinalFlush ==
    /\ cpc = "sentences"
    /\ si > Len(sentences)
    /\ chunks' = IF current_chunk # <<>>
                 THEN Append(chunks, Strip(current_chunk))
                 ELSE chunks
    /\ cpc' = "done"
    /\ UNCHANGED <<text, budget, enc, sentences, si, current_chunk, words, wi, temp_chunk>>
    /\ UNCHANGED notChunkVars

ChunkNext ==
    \/ SplitStart
    \/ SentenceFits
    \/ SentenceFlush
    \/ SentenceToWords
    \/ WordFits
    \/ WordFlush
    \/ WordAlone
    \/ WordsEnd
    \/ FinalFlush

(***************************************************************************)
(* Operators used to state the properties of the chunker.                  *)
(***************************************************************************)
Done == cpc = "done"

\* " ".join(ss)
RECURSIVE JoinWithSpaces(_)
JoinWithSpaces(ss) ==
    IF ss = <<>> THEN <<>>
    ELSE IF Len(ss) = 1 THEN ss[1]
    ELSE SpaceJoin(ss[1], JoinWithSpaces(Tail(ss)))

\* whitespace collapsing: every whitespace run becomes one space, none at the ends
Collapse(s) == JoinWithSpaces(SplitWords(s))

\* the first position of the whitespace run that holds position i of s
RECURSIVE RunStart(_, _)
RunStart(s, i) == IF i > 1 /\ IsSpace(s[i - 1]) THEN RunStart(s, i - 1) ELSE i

\* position i of s is whitespace, not the first of a run that follows a sentence ender
InSentenceGap(s, i) ==
    /\ IsSpace(s[i])
    /\ RunStart(s, i) # i
    /\ RunStart(s, i) > 1
    /\ IsSentenceEnd(s[RunStart(s, i) - 1])

\* s with every whitespace run that follows a sentence ender cut to one character
RECURSIVE SqueezeGapsFrom(_, _)
SqueezeGapsFrom(s, i) ==
    IF i > Len(s) THEN <<>>
    ELSE (IF InSentenceGap(s, i) THEN <<>> ELSE <<s[i]>>) \o SqueezeGapsFrom(s, i + 1)

SqueezeGaps(s) == SqueezeGapsFrom(s, 1)

\* C1: for non-empty text and budget >= 1 every returned chunk has an estimate
\* within the budget or is a single word whose own estimate exceeds the budget.
C1_ChunksWithinBudget ==
    (Done /\ text # <<>> /\ budget >= 1) =>
        \A i \in DOMAIN chunks :
            \/ count_tokens(chunks[i]) <= budget
            \/ /\ Len(SplitWords(chunks[i])) = 1
               /\ count_tokens(SplitWords(chunks[i])[1]) > budget

\* C2: joining the returned chunks with single spaces and collapsing whitespace
\* gives the whitespace-collapsed input, for every text and budget.
C2_ChunksReconstructText ==
    Done => Collapse(JoinWithSpaces(chunks)) = Collapse(text)

\* C2 witness: a finished run that split at sentence level and at word level.
C2_Witness ==
    /\ Done
    /\ Len(sentences) >= 2
    /\ Len(words) >= 2
    /\ Len(chunks) >= 3
    /\ Collapse(JoinWithSpaces(chunks)) = Collapse(text)

\* C3: every returned chunk is non-empty after trimming, for every text and
\* every budget >= 1.
C3_ChunksNonEmpty ==
    (Done /\ budget >= 1) => \A i \in DOMAIN chunks : Strip(chunks[i]) # <<>>

\* C4: for non-empty text and budget >= 1 the run ends with at least one chunk.
C4_AtLeastOneChunk ==
    (Done /\ text # <<>> /\ budget >= 1) => Len(chunks) >= 1

\* C5 as stated: if the estimate of the whole input is within the budget the
\* result is exactly one chunk equal to the trimmed input.
C5_WholeInputOneChunk ==
    (Done /\ count_tokens(text) <= budget) => chunks = <<Strip(text)>>

\* C5 amended: if the input is non-empty and its estimate is within the budget,
\* the result is exactly one chunk, equal to the trimmed input with every
\* whitespace run that follows a sentence ender replaced by one space.
C5_WholeInputOneChunkModuloGaps ==
    (Done /\ text # <<>> /\ count_tokens(text) <= budget) =>
        chunks = <<Strip(SqueezeGaps(text))>>

\* C5 witness: a text of several sentences, one gap longer than one character,
\* that fits the budget and came back as one chunk.
C5_Witness ==
    /\ Done
    /\ count_tokens(text) <= budget
    /\ Len(sentences) >= 2
    /\ SqueezeGaps(text) # text
    /\ Len(chunks) = 1

\* C6: the words of the chunks are the words of the text, in order (no boundary
\* inside a word), and every chunk holding a word whose own estimate exceeds the
\* budget consists of exactly that word.
C6_OversizedWordAlone ==
    (Done /\ budget >= 1) =>
        /\ SplitWords(JoinWithSpaces(chunks)) = SplitWords(text)
        /\ \A i \in DOMAIN chunks :
               \A j \in DOMAIN SplitWords(chunks[i]) :
                   count_tokens(SplitWords(chunks[i])[j]) > budget =>
                       chunks[i] = SplitWords(chunks[i])[j]


\* the first sentence of the text: it meets an empty buffer
FirstSentence == SplitSentences(text)[1]

\* the first sentence alone exceeds the budget and has several words
FirstSentenceTooLong ==
    /\ count_tokens(FirstSentence) > budget
    /\ Len(SplitWords(FirstSentence)) >= 2

LongSentenceMeetsBuffer ==
    /\ cpc = "sentences"
    /\ si <= Len(sentences)
    /\ current_chunk # <<>>
    /\ count_tokens(sentence) > budget

\* the buffer is the whole sentence just passed, which alone exceeds the budget
LongSentenceIsBuffer ==
    /\ cpc = "sentences"
    /\ si > 1
    /\ current_chunk = sentences[si - 1]
    /\ count_tokens(current_chunk) > budget

\* C27: a sentence that alone exceeds the budget and meets a non-empty buffer
\* makes the buffer a chunk and becomes the new buffer whole, the word loop
\* not being entered; the step after that emits the sentence as one chunk.
C27_LongSentenceKeptWhole ==
    [][ /\ LongSentenceMeetsBuffer =>
               /\ chunks' = Append(chunks, Strip(current_chunk))
               /\ current_chunk' = sentence
               /\ si' = si + 1
               /\ cpc' = "sentences"
               /\ UNCHANGED <<words, wi, temp_chunk>>
        /\ LongSentenceIsBuffer =>
               chunks' = Append(chunks, Strip(current_chunk))
      ]_vars

\* C27 witness: the run ended with a chunk that is a whole sentence of
\* several words exceeding the budget, after an earlier chunk.
C27_Witness ==
    /\ Done
    /\ Len(sentences) >= 2
    /\ Len(chunks) >= 2
    /\ chunks[Len(chunks)] = Strip(sentences[Len(sentences)])
    /\ count_tokens(sentences[Len(sentences)]) > budget
    /\ Len(SplitWords(sentences[Len(sentences)])) >= 2
    /\ budget >= 1

\* the last chunk emitted
LastChunk(cs) == cs[Len(cs)]

\* C30: wherever a chunk ends and another unit follows, the chunk
\* with a space and that unit exceeds the budget: the unit is the sentence
\* for a boundary of the sentence loop, the word for one of the word loop.
C30_GreedyMaximal ==
    [][ /\ (cpc = "sentences" /\ si <= Len(sentences) /\ Len(chunks') = Len(chunks) + 1
                /\ current_chunk' # <<>>) =>
               count_tokens(SpaceJoin(LastChunk(chunks'), sentence)) > budget
        /\ (cpc = "words" /\ wi <= Len(words) /\ Len(chunks') = Len(chunks) + 1
                /\ temp_chunk # <<>>) =>
               count_tokens(SpaceJoin(LastChunk(chunks'), word)) > budget
        /\ (cpc = "words" /\ wi <= Len(words) /\ temp_chunk = <<>> /\ chunks # <<>>
                /\ (temp_chunk' # <<>> \/ Len(chunks') = Len(chunks) + 1)) =>
               count_tokens(SpaceJoin(LastChunk(chunks), word)) > budget
        /\ (cpc = "sentences" /\ si <= Len(sentences) /\ current_chunk = <<>>
                /\ chunks # <<>> /\ current_chunk' # <<>>) =>
               count_tokens(SpaceJoin(LastChunk(chunks), sentence)) > budget
      ]_vars


(***************************************************************************)
(* The transcript service (youtube_transcript_api), as get_subtitles uses  *)
(* it.  A track is [language_code, is_generated, fetch_ok]; a              *)
(* transcript list holds at most one manual and one generated track per    *)
(* language.                                                               *)
(***************************************************************************)
Track == [language_code : Languages, is_generated : BOOLEAN, fetch_ok : BOOLEAN]

TrackLists ==
    {ts \in UNION {[1..n -> Track] : n \in 0..MaxTracks} :
        \A i, j \in DOMAIN ts :
            (/\ ts[i].language_code = ts[j].language_code
             /\ ts[i].is_generated = ts[j].is_generated) => i = j}

PriorityLists == UNION {[1..n -> Languages] : n \in 0..MaxPriority}

\* the position of the track of language lang and origin gen, 0 if there is none
TrackAt(lang, gen) ==
    IF \E i \in DOMAIN tracks :
           tracks[i].language_code = lang /\ tracks[i].is_generated = gen
    THEN CHOOSE i \in DOMAIN tracks :
             tracks[i].language_code = lang /\ tracks[i].is_generated = gen
    ELSE 0

\* transcript_list.find_generated_transcript([lang]); 0 stands for NoTranscriptFound
find_generated_transcript(lang) == TrackAt(lang, TRUE)

\* a variant of find_transcript that looks among the generated tracks first
find_transcript_GeneratedFirst(lang) ==
    IF TrackAt(lang, TRUE) # 0 THEN TrackAt(lang, TRUE) ELSE TrackAt(lang, FALSE)

\* transcript_list.find_transcript([lang]): the manual track of the language if
\* there is one, else the generated one; 0 stands for NoTranscriptFound
find_transcript(lang) ==
    IF TrackAt(lang, FALSE) # 0 THEN TrackAt(lang, FALSE) ELSE TrackAt(lang, TRUE)

\* the caption entries transcript.fetch() returns for a track: the texts of its
\* entries, which tell its language and its origin
FetchedTexts(t) ==
    << <<IF t.language_code = "en" THEN "e" ELSE "f", "\n">>,
       <<" ", IF t.is_generated THEN "g" ELSE "m", " ">>,
       <<"\n", "\n", "x">> >>

\* TextFormatter.format_transcript: "\n".join(line.text for line in transcript)
RECURSIVE JoinLines(_)
JoinLines(ls) ==
    IF ls = <<>> THEN <<>>
    ELSE IF Len(ls) = 1 THEN ls[1]
    ELSE ls[1] \o <<"\n">> \o JoinLines(Tail(ls))

\* re.sub(cls+, " ", s) for a character class cls
RECURSIVE SubRunsFrom(_, _, _)
SubRunsFrom(s, i, cls) ==
    IF i > Len(s) THEN <<>>
    ELSE IF s[i] \in cls
         THEN IF i > 1 /\ s[i - 1] \in cls
              THEN SubRunsFrom(s, i + 1, cls)
              ELSE <<" ">> \o SubRunsFrom(s, i + 1, cls)
         ELSE <<s[i]>> \o SubRunsFrom(s, i + 1, cls)

\* lines 100-102: the clean-up of a text
CleanUp(s) == Strip(SubRunsFrom(SubRunsFrom(s, 1, {"\n"}), 1, {" ", "\n"}))

\* a variant of _format_transcript that does not strip the ends
_format_transcript_NoStrip(data) ==
    SubRunsFrom(SubRunsFrom(JoinLines(data), 1, {"\n"}), 1, {" ", "\n"})

\* TranscriptProcessor._format_transcript
_format_transcript(data) == CleanUp(JoinLines(data))

\* a variant of the outer handler that lets the exception pass as it is
OuterExcept_Reraise(e) == e

\* lines 80-84: the handler of the outer try
OuterExcept(e) == IF e = "TranscriptError" THEN e ELSE "TranscriptError"

(***************************************************************************)
(* TranscriptProcessor.get_subtitles                                       *)
(***************************************************************************)
SelInit ==
    /\ tracks \in TrackLists
    /\ listOk \in BOOLEAN
    /\ language_priority \in PriorityLists
    /\ prefer_manual_transcripts \in BOOLEAN
    /\ spc = "list"
    /\ li = 0
    /\ ti = 0
    /\ result = <<>>
    /\ raised = "none"
    /\ fetchedOk = <<>>
    /\ tried = <<>>

selConfig == <<tracks, listOk, language_priority, prefer_manual_transcripts>>

lang_code == language_priority[li]

\* what a return of track i leaves behind
Return(i) ==
    /\ result' = _format_transcript(FetchedTexts(tracks[i]))
    /\ fetchedOk' = Append(fetchedOk, i)
    /\ spc' = "returned"
    /\ UNCHANGED <<li, ti, raised>>

\* what an exception of type e raised inside the outer try leaves behind
Raise(e) ==
    /\ raised' = OuterExcept(e)
    /\ spc' = "raised"
    /\ UNCHANGED <<li, ti, result, fetchedOk>>

\* lines 38-39: the listing returns
ListReturns ==
    /\ spc = "list"
    /\ listOk
    /\ spc' = "A"
    /\ li' = 1
    /\ UNCHANGED <<selConfig, ti, result, raised, fetchedOk, tried>>
    /\ UNCHANGED notSelVars

\* lines 38-39, 80-84: the listing raises
ListRaises ==
    /\ spc = "list"
    /\ ~listOk
    /\ Raise("LibraryError")
    /\ UNCHANGED <<selConfig, tried>>
    /\ UNCHANGED notSelVars

\* a variant of Taken that does not look at prefer_manual_transcripts
Taken_AnyManual(i) == ~tracks[i].is_generated

\* line 45: the track found for the language is one State A takes
Taken(i) == prefer_manual_transcripts /\ ~tracks[i].is_generated

\* lines 42-49: the manual track of the language is found, fetched and returned
StateAReturn ==
    /\ spc = "A"
    /\ li <= Len(language_priority)
    /\ find_transcript(lang_code) # 0
    /\ Taken(find_transcript(lang_code))
    /\ tracks[find_transcript(lang_code)].fetch_ok
    /\ tried' = Append(tried, <<"A", lang_code>>)
    /\ Return(find_transcript(lang_code))
    /\ UNCHANGED selConfig
    /\ UNCHANGED notSelVars

\* a variant of StateASkip that tries State B for the language at once
StateASkip_ToStateB ==
    /\ spc = "A"
    /\ li <= Len(language_priority)
    /\ find_transcript(lang_code) # 0 => ~Taken(find_transcript(lang_code))
    /\ tried' = Append(tried, <<"A", lang_code>>)
    /\ spc' = "B"
    /\ UNCHANGED <<selConfig, li, ti, result, raised, fetchedOk>>
    /\ UNCHANGED notSelVars

\* lines 42-45, 50-51: no track of the language (find_transcript raises), or a
\* track that State A does not take: on to the next language
StateASkip ==
    /\ spc = "A"
    /\ li <= Len(language_priority)
    /\ find_transcript(lang_code) # 0 => ~Taken(find_transcript(lang_code))
    /\ tried' = Append(tried, <<"A", lang_code>>)
    /\ li' = li + 1
    /\ UNCHANGED <<selConfig, spc, ti, result, raised, fetchedOk>>
    /\ UNCHANGED notSelVars

\* a variant of StateAFetchRaises in which the exception leaves the loop
StateAFetchRaises_Propagates ==
    /\ spc = "A"
    /\ li <= Len(language_priority)
    /\ find_transcript(lang_code) # 0
    /\ Taken(find_transcript(lang_code))
    /\ ~tracks[find_transcript(lang_code)].fetch_ok
    /\ tried' = Append(tried, <<"A", lang_code>>)
    /\ Raise("LibraryError")
    /\ UNCHANGED selConfig
    /\ UNCHANGED notSelVars

\* lines 47, 50-51: the fetch of the manual track raises: on to the next language
StateAFetchRaises ==
    /\ spc = "A"
    /\ li <= Len(language_priority)
    /\ find_transcript(lang_code) # 0
    /\ Taken(find_transcript(lang_code))
    /\ ~tracks[find_transcript(lang_code)].fetch_ok
    /\ tried' = Append(tried, <<"A", lang_code>>)
    /\ li' = li + 1
    /\ UNCHANGED <<selConfig, spc, ti, result, raised, fetchedOk>>
    /\ UNCHANGED notSelVars

\* line 54: the first loop is exhausted, the second starts
StateAEnd ==
    /\ spc = "A"
    /\ li > Len(language_priority)
    /\ spc' = "B"
    /\ li' = 1
    /\ UNCHANGED <<selConfig, ti, result, raised, fetchedOk, tried>>
    /\ UNCHANGED notSelVars

\* lines 54-60: the generated track of the language is found, fetched and returned
StateBReturn ==
    /\ spc = "B"
    /\ li <= Len(language_priority)
    /\ find_generated_transcript(lang_code) # 0
    /\ tracks[find_generated_transcript(lang_code)].fetch_ok
    /\ tried' = Append(tried, <<"B", lang_code>>)
    /\ Return(find_generated_transcript(lang_code))
    /\ UNCHANGED selConfig
    /\ UNCHANGED notSelVars

\* lines 54-56, 61-62: no generated track of the language
\* (find_generated_transcript raises): on to the next language
StateBSkip ==
    /\ spc = "B"
    /\ li <= Len(language_priority)
    /\ find_generated_transcript(lang_code) = 0
    /\ tried' = Append(tried, <<"B", lang_code>>)
    /\ li' = li + 1
    /\ UNCHANGED <<selConfig, spc, ti, result, raised, fetchedOk>>
    /\ UNCHANGED notSelVars

\* lines 58, 61-62: the fetch of the generated track raises: on to the next language
StateBFetchRaises ==
    /\ spc = "B"
    /\ li <= Len(language_priority)
    /\ find_generated_transcript(lang_code) # 0
    /\ ~tracks[find_generated_transcript(lang_code)].fetch_ok
    /\ tried' = Append(tried, <<"B", lang_code>>)
    /\ li' = li + 1
    /\ UNCHANGED <<selConfig, spc, ti, result, raised, fetchedOk>>
    /\ UNCHANGED notSelVars

\* lines 65-66: the second loop is exhausted, the scan of all tracks starts
StateBEnd ==
    /\ spc = "B"
    /\ li > Len(language_priority)
    /\ spc' = "C"
    /\ ti' = 1
    /\ UNCHANGED <<selConfig, li, result, raised, fetchedOk, tried>>
    /\ UNCHANGED notSelVars

\* a variant of StateCReturn that takes the first track of any origin
StateCReturn_AnyOrigin ==
    /\ spc = "C"
    /\ ti <= Len(tracks)
    /\ tracks[ti].fetch_ok
    /\ Return(ti)
    /\ tried' = Append(tried, <<"C", tracks[ti].language_code>>)
    /\ UNCHANGED selConfig
    /\ UNCHANGED notSelVars

\* lines 66-73: a generated track is reached, fetched and returned
StateCReturn ==
    /\ spc = "C"
    /\ ti <= Len(tracks)
    /\ tracks[ti].is_generated
    /\ tracks[ti].fetch_ok
    /\ Return(ti)
    /\ tried' = Append(tried, <<"C", tracks[ti].language_code>>)
    /\ UNCHANGED selConfig
    /\ UNCHANGED notSelVars

\* lines 66-67: a manual track is passed over
StateCSkip ==
    /\ spc = "C"
    /\ ti <= Len(tracks)
    /\ ~tracks[ti].is_generated
    /\ ti' = ti + 1
    /\ UNCHANGED <<selConfig, spc, li, result, raised, fetchedOk, tried>>
    /\ UNCHANGED notSelVars

\* lines 71, 75-78, 80-82: the fetch of the generated track raises, which ends
\* the scan; TranscriptError is raised
StateCFetchRaises ==
    /\ spc = "C"
    /\ ti <= Len(tracks)
    /\ tracks[ti].is_generated
    /\ ~tracks[ti].fetch_ok
    /\ Raise("TranscriptError")
    /\ tried' = Append(tried, <<"C", tracks[ti].language_code>>)
    /\ UNCHANGED selConfig
    /\ UNCHANGED notSelVars

\* lines 74, 78, 80-82: the scan ends without a generated track
StateCEnd ==
    /\ spc = "C"
    /\ ti > Len(tracks)
    /\ Raise("TranscriptError")
    /\ UNCHANGED <<selConfig, tried>>
    /\ UNCHANGED notSelVars

SelNext ==
    \/ ListReturns
    \/ ListRaises
    \/ StateAReturn
    \/ StateASkip
    \/ StateAFetchRaises
    \/ StateAEnd
    \/ StateBReturn
    \/ StateBSkip
    \/ StateBFetchRaises
    \/ StateBEnd
    \/ StateCReturn
    \/ StateCSkip
    \/ StateCFetchRaises
    \/ StateCEnd


(***************************************************************************)
(* Operators used to state the properties of the selector.                 *)
(***************************************************************************)
Terminal == spc \in {"returned", "raised"}

\* the state (A, B or C) that made the last attempt
LastState == IF tried = <<>> THEN "none" ELSE tried[Len(tried)][1]

ReturnedIn(st) == spc = "returned" /\ LastState = st

Min(S) == CHOOSE k \in S : \A j \in S : k <= j

\* the cleaned text of the track of language lang and origin gen
CleanText(lang, gen) ==
    <<IF lang = "en" THEN "e" ELSE "f", " ", IF gen THEN "g" ELSE "m", " ", "x">>

\* the positions of language_priority whose language has a track of origin gen
\* that can be fetched
PriorityPositions(gen) ==
    {k \in DOMAIN language_priority :
        \E i \in DOMAIN tracks :
            /\ tracks[i].language_code = language_priority[k]
            /\ tracks[i].is_generated = gen
            /\ tracks[i].fetch_ok}

\* the positions of the generated tracks in the track list
GeneratedTracks == {i \in DOMAIN tracks : tracks[i].is_generated}

C10_TextOrTranscriptError ==
    /\ raised \in {"none", "TranscriptError"}
    /\ ~Terminal => raised = "none" /\ fetchedOk = <<>>
    /\ spc = "returned" =>
           /\ raised = "none"
           /\ Len(fetchedOk) = 1
           /\ tracks[fetchedOk[1]].fetch_ok
           /\ result = CleanText(tracks[fetchedOk[1]].language_code,
                                 tracks[fetchedOk[1]].is_generated)
    /\ spc = "raised" => raised = "TranscriptError" /\ fetchedOk = <<>>
    /\ (Terminal /\ (~listOk \/ \A i \in DOMAIN tracks : ~tracks[i].fetch_ok)) =>
           spc = "raised"

\* C10 witness: the listing failed and TranscriptError left get_subtitles.
C10_Witness ==
    /\ spc = "raised"
    /\ ~listOk
    /\ raised = "TranscriptError"


\* the attempts of one state over the first n languages of language_priority
AttemptsOf(st, n) == [k \in 1..n |-> <<st, language_priority[k]>>]

\* every language was tried in State A and then in State B
AllOfAAndB ==
    AttemptsOf("A", Len(language_priority)) \o AttemptsOf("B", Len(language_priority))

\* the track of language lang and origin gen exists and its fetch raises
FetchFails(lang, gen) ==
    \E i \in DOMAIN tracks :
        /\ tracks[i].language_code = lang
        /\ tracks[i].is_generated = gen
        /\ ~tracks[i].fetch_ok

\* C22: a lookup or a fetch that raises in State A or State B does not end
\* the selection: the next language is tried, then the next state; nothing
\* is raised before State A and State B have tried every language.
C22_FailuresSwallowed ==
    /\ spc = "A" => raised = "none" /\ tried = AttemptsOf("A", li - 1)
    /\ spc = "B" =>
           /\ raised = "none"
           /\ tried = AttemptsOf("A", Len(language_priority)) \o AttemptsOf("B", li - 1)
    /\ (spc = "raised" /\ listOk) =>
           /\ Len(tried) >= Len(AllOfAAndB)
           /\ SubSeq(tried, 1, Len(AllOfAAndB)) = AllOfAAndB
    /\ (Terminal /\ listOk /\ language_priority # <<>>
            /\ prefer_manual_transcripts
            /\ FetchFails(language_priority[1], FALSE)
            /\ PriorityPositions(FALSE) = {}
            /\ 1 \in PriorityPositions(TRUE)) =>
           /\ ReturnedIn("B")
           /\ result = CleanText(language_priority[1], TRUE)

\* C22 witness: the fetch of the manual track of the first language raised
\* and the generated track of that language was returned by State B.
C22_Witness ==
    /\ ReturnedIn("B")
    /\ prefer_manual_transcripts
    /\ FetchFails(language_priority[1], FALSE)
    /\ result = CleanText(language_priority[1], TRUE)

\* the languages of language_priority
PriorityLanguages == {language_priority[k] : k \in DOMAIN language_priority}

\* the manual tracks State A may take
ManualAllowed(t) ==
    /\ prefer_manual_transcripts
    /\ t.language_code \in PriorityLanguages

\* C28: a manual track is returned only if prefer_manual_transcripts is set
\* and its language is in language_priority; a video that has only manual
\* tracks outside that condition ends in TranscriptError.
C28_ManualOnlyIfPreferredLanguage ==
    /\ spc = "returned" =>
           \/ tracks[fetchedOk[1]].is_generated
           \/ ManualAllowed(tracks[fetchedOk[1]])
    /\ (Terminal /\ \A i \in DOMAIN tracks :
                        ~tracks[i].is_generated /\ ~ManualAllowed(tracks[i])) =>
           /\ spc = "raised"
           /\ raised = "TranscriptError"

\* C28 witness: the only tracks are manual ones that could be fetched, in a
\* language of language_priority, and TranscriptError was raised.
C28_Witness ==
    /\ spc = "raised"
    /\ listOk
    /\ tracks # <<>>
    /\ ~prefer_manual_transcripts
    /\ \A i \in DOMAIN tracks :
           /\ ~tracks[i].is_generated
           /\ tracks[i].fetch_ok
           /\ tracks[i].language_code \in PriorityLanguages


(***************************************************************************)
(* TranscriptProcessor._format_transcript on its own, for any list of      *)
(* caption entries.                                                        *)
(***************************************************************************)
\* the texts a caption entry may hold
EntryTexts ==
    {<<>>, <<"a">>, <<"b">>, <<" ">>, <<"\n">>, <<"a", "\n", " ", "b">>}

TranscriptData == UNION {[1..n -> EntryTexts] : n \in 0..MaxEntries}

FmtInit ==
    /\ transcript_data \in TranscriptData
    /\ formatted_text = <<>>
    /\ tpc = "start"

\* lines 96-104
CallFormatTranscript ==
    /\ tpc = "start"
    /\ formatted_text' = _format_transcript(transcript_data)
    /\ tpc' = "done"
    /\ UNCHANGED transcript_data
    /\ UNCHANGED notFmtVars

FmtNext == CallFormatTranscript

\* the words of the entries of a transcript, in order
RECURSIVE EntryWords(_)
EntryWords(data) ==
    IF data = <<>> THEN <<>> ELSE SplitWords(Head(data)) \o EntryWords(Tail(data))

\* C25: the text _format_transcript returns holds the texts of the entries in
\* their order, has no newline, no two whitespace characters in a row and no
\* whitespace at its ends; cleaning it again changes nothing.
C25_CleanTranscriptText ==
    tpc = "done" =>
        /\ SplitWords(formatted_text) = EntryWords(transcript_data)
        /\ \A i \in DOMAIN formatted_text : formatted_text[i] # "\n"
        /\ \A i \in DOMAIN formatted_text :
               (i > 1 /\ IsSpace(formatted_text[i])) => ~IsSpace(formatted_text[i - 1])
        /\ formatted_text # <<>> =>
               /\ ~IsSpace(formatted_text[1])
               /\ ~IsSpace(formatted_text[Len(formatted_text)])
        /\ CleanUp(formatted_text) = formatted_text

\* C25 witness: entries with newlines, whitespace runs and whitespace at the
\* ends came back as words separated by single spaces.
C25_Witness ==
    /\ tpc = "done"
    /\ Len(transcript_data) = 3
    /\ transcript_data[1] = <<"\n">>
    /\ transcript_data[2] = <<"a", "\n", " ", "b">>
    /\ transcript_data[3] = <<" ">>
    /\ formatted_text = <<"a", " ", "b">>


(***************************************************************************)
(* sanitize_filename (utils/helpers.py).  A filename is a sequence of      *)
(* characters: "a" a harmless character, "<" one of the characters of the  *)
(* class [<>:"/\|?*], " " the space, "\t" whitespace other than the space  *)
(* (tab, newline), "_" the underscore.                                     *)
(***************************************************************************)
NameChars == {"a", "<", " ", "\t", "_"}
Filenames == UNION {[1..n -> NameChars] : n \in 0..MaxName}

InvalidChars == {"<", ">", ":", "\"", "/", "\\", "|", "?", "*"}

\* s without the characters of cls
RECURSIVE RemoveChars(_, _)
RemoveChars(s, cls) ==
    IF s = <<>> THEN <<>>
    ELSE (IF Head(s) \in cls THEN <<>> ELSE <<Head(s)>>) \o RemoveChars(Tail(s), cls)

\* str.replace(a, b) for single characters
ReplaceChar(s, a, b) == [i \in DOMAIN s |-> IF s[i] = a THEN b ELSE s[i]]

\* re.sub(r'_+', '_', s)
RECURSIVE CollapseUnderscoresFrom(_, _)
CollapseUnderscoresFrom(s, i) ==
    IF i > Len(s) THEN <<>>
    ELSE (IF s[i] = "_" /\ i > 1 /\ s[i - 1] = "_" THEN <<>> ELSE <<s[i]>>)
         \o CollapseUnderscoresFrom(s, i + 1)

\* str.strip('_')
RECURSIVE StripUnderscores(_)
StripUnderscores(s) ==
    IF s # <<>> /\ Head(s) = "_" THEN StripUnderscores(Tail(s))
    ELSE IF s # <<>> /\ s[Len(s)] = "_" THEN StripUnderscores(SubSeq(s, 1, Len(s) - 1))
    ELSE s

\* lines 22-28
sanitize_filename(name) ==
    StripUnderscores(
        CollapseUnderscoresFrom(
            ReplaceChar(RemoveChars(name, InvalidChars), " ", "_"), 1))

SanInit ==
    /\ filename \in Filenames
    /\ sanitized = <<>>
    /\ fpc = "start"

CallSanitize ==
    /\ fpc = "start"
    /\ sanitized' = sanitize_filename(filename)
    /\ fpc' = "done"
    /\ UNCHANGED filename
    /\ UNCHANGED notSanVars

SanNext == CallSanitize

\* C17: for every input, sanitize_filename returns a string with none of the
\* characters < > : " / \ | ? *, in which the whitespace runs (spaces, tabs,
\* newlines) have become single underscores (so no whitespace is left), with no
\* two consecutive underscores and no underscore at either end.
C17_SanitizedName ==
    fpc = "done" =>
        /\ \A i \in DOMAIN sanitized : sanitized[i] \notin InvalidChars
        /\ \A i \in DOMAIN sanitized : sanitized[i] \notin {" ", "\t", "\n"}
        /\ \A i \in DOMAIN sanitized :
               i > 1 => ~(sanitized[i] = "_" /\ sanitized[i - 1] = "_")
        /\ sanitized # <<>> => sanitized[1] # "_" /\ sanitized[Len(sanitized)] # "_"

(***************************************************************************)
(* is_playlist_url and extract_video_id (utils/helpers.py).  A URL is what *)
(* urlparse and parse_qs read from it: the host, the path as its segments  *)
(* (<<"embed", "E">> is "/embed/E"), whether the query holds a non-blank   *)
(* v= and whether it holds a list=.                                        *)
(***************************************************************************)
Hosts == {"www.youtube.com", "youtube.com", "youtu.be", "m.youtube.com", "example.com"}

Paths == {<<"watch">>, <<"playlist">>, <<"embed", "E">>, <<"embed">>, <<"v", "V">>,
          <<"S">>, <<>>}

Urls == [hostname : Hosts, path : Paths, v : BOOLEAN, list : BOOLEAN]

\* path[:n] == "/<first>/"
StartsWithSegment(u, first) == Len(u.path) >= 2 /\ u.path[1] = first

\* lines 52-61
is_playlist_url(u) ==
    IF u.hostname \notin {"www.youtube.com", "youtube.com"} THEN FALSE
    ELSE IF u.path = <<"playlist">> THEN TRUE
    ELSE IF u.path = <<"watch">> THEN u.list
    ELSE FALSE

Returns(x) == [kind |-> "return", value |-> x]

Raises(e) == [kind |-> "raise", value |-> e]

NotCalled == [kind |-> "none", value |-> "none"]

RaisedAs(r, e) == r.kind = "raise" /\ r.value = e

\* lines 77-93; the id returned is given as the path segments it is made of;
\* parse_qs(query)["v"] raises KeyError when the query holds no v=
extract_video_id(u) ==
    IF is_playlist_url(u) THEN Raises("ValueError")
    ELSE IF u.hostname = "youtu.be" THEN Returns(u.path)
    ELSE IF u.hostname \in {"www.youtube.com", "youtube.com"} /\ u.path = <<"watch">>
    THEN IF u.v THEN Returns(<<"VIDEO_ID">>) ELSE Raises("KeyError")
    ELSE IF /\ u.hostname \in {"www.youtube.com", "youtube.com"}
            /\ (StartsWithSegment(u, "embed") \/ StartsWithSegment(u, "v"))
    THEN Returns(<<u.path[2]>>)
    ELSE Raises("ValueError")

UrlInit ==
    /\ url \in Urls
    /\ is_playlist = FALSE
    /\ extracted = NotCalled
    /\ upc = {}

CallIsPlaylistUrl ==
    /\ "is_playlist_url" \notin upc
    /\ is_playlist' = is_playlist_url(url)
    /\ upc' = upc \cup {"is_playlist_url"}
    /\ UNCHANGED <<url, extracted>>
    /\ UNCHANGED notUrlVars

CallExtractVideoId ==
    /\ "extract_video_id" \notin upc
    /\ extracted' = extract_video_id(url)
    /\ upc' = upc \cup {"extract_video_id"}
    /\ UNCHANGED <<url, is_playlist>>
    /\ UNCHANGED notUrlVars

UrlNext == CallIsPlaylistUrl \/ CallExtractVideoId

\* C19: extract_video_id returns the id or raises ValueError and nothing else; it
\* raises ValueError for every URL is_playlist_url accepts and for every URL
\* whose host is not a YouTube host.
C19_IdOrValueError ==
    "extract_video_id" \in upc =>
        /\ extracted.kind = "return" \/ RaisedAs(extracted, "ValueError")
        /\ ("is_playlist_url" \in upc /\ is_playlist) => RaisedAs(extracted, "ValueError")
        /\ url.hostname \notin {"www.youtube.com", "youtube.com", "youtu.be"} =>
               RaisedAs(extracted, "ValueError")


(***************************************************************************)
(* SummaryGenerator.merge_summaries (core/summary.py).  A document is the  *)
(* sequence of its lines; a summary, which the service returns, stands on  *)
(* one line.                                                               *)
(***************************************************************************)
Line(kind, n, s) == [kind |-> kind, n |-> n, s |-> s]

Blank == Line("blank", 0, <<>>)

Rule == Line("rule", 0, <<>>)

DefaultTitle ==
    <<"Y", "o", "u", "T", "u", "b", "e", " ", "V", "i", "d", "e", "o", " ",
      "S", "u", "m", "m", "a", "r", "y">>

\* lines 82-87: "# {title}", "*Generated on: ...*", "*Total sections: n*"
HeaderLines(sums, title) ==
    << Line("title", 0, IF title # <<>> THEN title ELSE DefaultTitle),
       Blank,
       Line("generated_on", 0, <<"DATE">>),
       Line("total_sections", Len(sums), <<>>),
       Blank >>

\* a variant of HasParts that is true of a single summary too
HasParts_Single(sums) == Len(sums) >= 1

\* lines 90, 98: len(summaries) > 1
HasParts(sums) == Len(sums) > 1

\* a variant of TocEntries that stops one entry early
TocEntries_OneShort(sums) ==
    [i \in 1..(Len(sums) - 1) |-> Line("toc_entry", i, <<>>)]

\* lines 92-93: "- [Part i](#part-i)" for every summary
TocEntries(sums) == [i \in 1..Len(sums) |-> Line("toc_entry", i, <<>>)]

\* lines 90-94
TocLines(sums) ==
    IF HasParts(sums)
    THEN <<Line("toc_header", 0, <<>>), Blank>> \o TocEntries(sums)
         \o <<Blank, Rule, Blank>>
    ELSE <<>>

\* lines 97-103: one pass of the loop
SectionLines(sums, i) ==
    (IF HasParts(sums) THEN <<Line("part_header", i, <<>>), Blank>> ELSE <<>>)
    \o <<Line("summary", 0, sums[i]), Blank>>
    \o (IF i < Len(sums) THEN <<Rule, Blank>> ELSE <<>>)

RECURSIVE BodyLinesFrom(_, _)
BodyLinesFrom(sums, i) ==
    IF i > Len(sums) THEN <<>>
    ELSE SectionLines(sums, i) \o BodyLinesFrom(sums, i + 1)

\* lines 70-105
merge_summaries(sums, title) ==
    HeaderLines(sums, title) \o TocLines(sums) \o BodyLinesFrom(sums, 1)

(***************************************************************************)
(* The pipeline: cli.main, process_playlist, process_video                 *)
(* (cli.py, core/summarizer.py), with save_summary (core/summary.py).      *)
(* What the services answer (the page of a video, the transcript, the      *)
(* chunks of a transcript, a summary, the file system) is chosen when the  *)
(* call is made.                                                           *)
(***************************************************************************)
\* the modules that import the name settings from the package config
\* (cli.py line 13, summarizer.py line 11, transcript.py line 12,
\* summary.py line 9)
SettingsModules == {"cli", "summarizer", "transcript", "summary"}

\* config/settings.py line 169: every module starts bound to the instance
\* made at import time
ImportTimeBindings == [m \in SettingsModules |-> "default"]

Entries == {"list_providers", "create_config", "no_url", "run",
            "process_video", "process_playlist"}

\* the URLs the pipeline is run with: one of each kind the helpers tell apart
EntryUrls ==
    {u \in Urls :
        /\ u.hostname \in {"www.youtube.com", "example.com"}
        /\ u.path \in {<<"watch">>, <<"playlist">>}
        /\ (u.path = <<"playlist">> => ~u.v /\ u.list)
        /\ (u.hostname = "example.com" => u.path = <<"watch">> /\ u.v /\ ~u.list)}

\* the titles a video page may carry
PageTitles == {<<"a", " ", "b">>, <<"a", "_", "b">>}

\* what requests.get gives for a video page: no answer, or a page with or
\* without a title
Pages ==
    {[fetched |-> FALSE, title |-> <<>>], [fetched |-> TRUE, title |-> <<>>]}
    \cup {[fetched |-> TRUE, title |-> t] : t \in PageTitles}

\* get_video_title_from_html, helpers.py lines 109-124
get_video_title_from_html(page) ==
    IF page.fetched /\ page.title # <<>> THEN page.title ELSE DefaultTitle

\* what the summarization service answers to a call: a text of its own
\* for every chunk
ServiceAnswer(chunk) == <<"summary of">> \o chunk

\* the chunks split_text_into_chunks returns: n chunks, each its own text
ChunkList(n) == [i \in 1..n |-> <<"chunk", ToString(i)>>]

\* f"https://www.youtube.com/watch?v={vid}", summarizer.py line 140
WatchUrl(vid) ==
    [hostname |-> "www.youtube.com", path |-> <<"watch">>, v |-> TRUE, list |-> FALSE]

\* f"{output_dir}/{sanitize_filename(video_title)}.md", summary.py lines 124-126
OutputPath(title) == <<"o", "u", "t", "/">> \o sanitize_filename(title) \o <<".", "m", "d">>

\* a variant of ProcessVideoExcept that lets the exception pass as it is
ProcessVideoExcept_Reraise(e) == e

\* summarizer.py lines 111-115: the handler of process_video
ProcessVideoExcept(e) ==
    IF e \in {"VideoProcessingError", "PlaylistError"} THEN e ELSE "VideoProcessingError"

\* summarizer.py lines 148-150: the handler of process_playlist
PlaylistExcept(e) == "PlaylistError"

\* a variant of MainExceptStatus that reports failure for an interrupt only
MainExceptStatus_InterruptOnly(e) == IF e = "KeyboardInterrupt" THEN 1 ELSE 0

\* cli.py lines 142-154: the status the except clauses of main return
MainExceptStatus(e) == 1

VideoIdle ==
    /\ vpc = "idle"
    /\ video_url = WatchUrl(0)
    /\ video_title = <<>>
    /\ pv_chunks = <<>>
    /\ summaries = <<>>
    /\ ci = 0
    /\ calls = <<>>
    /\ final_document = <<>>
    /\ output_file = <<>>
    /\ v_raised = "none"
    /\ v_cause = "none"

PlaylistIdle ==
    /\ ppc = "idle"
    /\ video_ids = <<>>
    /\ vidx = 0
    /\ output_files = <<>>
    /\ p_raised = "none"
    /\ attempts = <<>>

\* process_video is entered with url u
StartVideo(u) ==
    /\ vpc' = "extract"
    /\ video_url' = u
    /\ video_title' = <<>>
    /\ pv_chunks' = <<>>
    /\ summaries' = <<>>
    /\ ci' = 0
    /\ calls' = <<>>
    /\ final_document' = <<>>
    /\ output_file' = <<>>
    /\ v_raised' = "none"
    /\ v_cause' = "none"

\* process_playlist is entered
StartPlaylist ==
    /\ ppc' = "enumerate"
    /\ video_ids' = <<>>
    /\ vidx' = 0
    /\ output_files' = <<>>
    /\ p_raised' = "none"
    /\ attempts' = <<>>

AppInit ==
    /\ entry \in Entries
    /\ cli_url \in EntryUrls
    /\ mpc = IF entry \in {"process_video", "process_playlist"} THEN "idle" ELSE "start"
    /\ exit_status = -1
    /\ main_caught = "none"
    /\ ctor_raised = "none"
    /\ IF entry = "process_playlist"
       THEN /\ ppc = "enumerate"
            /\ video_ids = <<>> /\ vidx = 0 /\ output_files = <<>>
            /\ p_raised = "none" /\ attempts = <<>>
       ELSE PlaylistIdle
    /\ IF entry = "process_video"
       THEN /\ vpc = "extract"
            /\ video_url = cli_url
            /\ video_title = <<>> /\ pv_chunks = <<>> /\ summaries = <<>> /\ ci = 0
            /\ calls = <<>> /\ final_document = <<>> /\ output_file = <<>>
            /\ v_raised = "none" /\ v_cause = "none"
       ELSE VideoIdle
    /\ files = <<>>
    /\ writes = <<>>
    /\ config_given \in (IF entry \in {"no_url", "run"} THEN BOOLEAN ELSE {FALSE})
    /\ settings_of = ImportTimeBindings
    /\ tp_settings = IF entry \in {"process_video", "process_playlist"}
                     THEN "default" ELSE "none"
    /\ sg_settings = IF entry \in {"process_video", "process_playlist"}
                     THEN "default" ELSE "none"
    /\ budget_from = "none"

(***************************************************************************)
(* cli.main                                                                *)
(***************************************************************************)
MainReturn(status) ==
    /\ exit_status' = status
    /\ mpc' = "exit"

\* lines 95-101: --list-providers, --create-config
MainSpecialCommand ==
    /\ mpc = "start"
    /\ entry \in {"list_providers", "create_config"}
    /\ MainReturn(0)
    /\ UNCHANGED <<entry, cli_url, main_caught, ctor_raised>>
    /\ UNCHANGED <<playlistVars, videoVars, fileVars>>
    /\ UNCHANGED cfgVars
    /\ UNCHANGED notAppVars

\* lines 104-106: --config FILE: global settings; settings = Settings.from_file(FILE)
\* binds the name settings of the module cli to the instance loaded
MainLoadConfig ==
    /\ mpc = "start"
    /\ entry \in {"no_url", "run"}
    /\ config_given
    /\ settings_of' = [settings_of EXCEPT !["cli"] = "loaded"]
    /\ mpc' = "configured"
    /\ UNCHANGED <<entry, cli_url, exit_status, main_caught, ctor_raised>>
    /\ UNCHANGED <<playlistVars, videoVars, fileVars>>
    /\ UNCHANGED <<config_given, tp_settings, sg_settings, budget_from>>
    /\ UNCHANGED notAppVars

\* lines 104-106, settings.py lines 110-125: Settings.from_file raises (the
\* file is not a configuration); nothing in main catches it and the
\* interpreter exits with status 1
MainLoadConfigRaises ==
    /\ mpc = "start"
    /\ entry \in {"no_url", "run"}
    /\ config_given
    /\ MainReturn(1)
    /\ UNCHANGED <<entry, cli_url, main_caught, ctor_raised>>
    /\ UNCHANGED <<playlistVars, videoVars, fileVars>>
    /\ UNCHANGED cfgVars
    /\ UNCHANGED notAppVars

\* line 104: no --config
MainNoConfig ==
    /\ mpc = "start"
    /\ entry \in {"no_url", "run"}
    /\ ~config_given
    /\ mpc' = "configured"
    /\ UNCHANGED <<entry, cli_url, exit_status, main_caught, ctor_raised>>
    /\ UNCHANGED <<playlistVars, videoVars, fileVars>>
    /\ UNCHANGED cfgVars
    /\ UNCHANGED notAppVars

\* lines 109-110: parser.error exits with status 2
MainNoUrl ==
    /\ mpc = "configured"
    /\ entry = "no_url"
    /\ MainReturn(2)
    /\ UNCHANGED <<entry, cli_url, main_caught, ctor_raised>>
    /\ UNCHANGED <<playlistVars, videoVars, fileVars>>
    /\ UNCHANGED cfgVars
    /\ UNCHANGED notAppVars

\* lines 114-116: the summarizer is constructed; TranscriptProcessor and
\* SummaryGenerator take the settings their own modules are bound to
\* (transcript.py line 21, summary.py line 27)
MainConstruct ==
    /\ mpc = "configured"
    /\ entry = "run"
    /\ mpc' = "dispatch"
    /\ tp_settings' = settings_of["transcript"]
    /\ sg_settings' = settings_of["summary"]
    /\ UNCHANGED <<entry, cli_url, exit_status, main_caught, ctor_raised>>
    /\ UNCHANGED <<playlistVars, videoVars, fileVars>>
    /\ UNCHANGED <<config_given, settings_of, budget_from>>
    /\ UNCHANGED notAppVars

\* lines 114-116, 142-144: the constructor raises YouTubeSummarizerError
MainConstructRaises ==
    /\ mpc = "configured"
    /\ entry = "run"
    /\ ctor_raised' = "YouTubeSummarizerError"
    /\ main_caught' = "YouTubeSummarizerError"
    /\ MainReturn(MainExceptStatus("YouTubeSummarizerError"))
    /\ UNCHANGED <<entry, cli_url>>
    /\ UNCHANGED <<playlistVars, videoVars, fileVars>>
    /\ UNCHANGED cfgVars
    /\ UNCHANGED notAppVars

\* lines 119-120: a playlist URL goes to process_playlist
MainCallPlaylist ==
    /\ mpc = "dispatch"
    /\ is_playlist_url(cli_url)
    /\ mpc' = "in_playlist"
    /\ StartPlaylist
    /\ UNCHANGED <<entry, cli_url, exit_status, main_caught, ctor_raised>>
    /\ UNCHANGED <<videoVars, fileVars>>
    /\ UNCHANGED cfgVars
    /\ UNCHANGED notAppVars

\* lines 124-125: any other URL goes to process_video
MainCallVideo ==
    /\ mpc = "dispatch"
    /\ ~is_playlist_url(cli_url)
    /\ mpc' = "in_video"
    /\ StartVideo(cli_url)
    /\ UNCHANGED <<entry, cli_url, exit_status, main_caught, ctor_raised>>
    /\ UNCHANGED <<playlistVars, fileVars>>
    /\ UNCHANGED cfgVars
    /\ UNCHANGED notAppVars

\* lines 120-123, 140: process_playlist returned
MainPlaylistReturned ==
    /\ mpc = "in_playlist"
    /\ ppc = "returned"
    /\ MainReturn(0)
    /\ UNCHANGED <<entry, cli_url, main_caught, ctor_raised>>
    /\ UNCHANGED <<playlistVars, videoVars, fileVars>>
    /\ UNCHANGED cfgVars
    /\ UNCHANGED notAppVars

\* lines 120, 142-144: process_playlist raised
MainPlaylistRaised ==
    /\ mpc = "in_playlist"
    /\ ppc = "raised"
    /\ main_caught' = p_raised
    /\ MainReturn(MainExceptStatus(p_raised))
    /\ UNCHANGED <<entry, cli_url, ctor_raised>>
    /\ UNCHANGED <<playlistVars, videoVars, fileVars>>
    /\ UNCHANGED cfgVars
    /\ UNCHANGED notAppVars

\* lines 125-140: process_video returned; the preview is skipped (--verbose) or shown
MainVideoReturned ==
    /\ mpc = "in_video"
    /\ vpc = "returned"
    /\ MainReturn(0)
    /\ UNCHANGED <<entry, cli_url, main_caught, ctor_raised>>
    /\ UNCHANGED <<playlistVars, videoVars, fileVars>>
    /\ UNCHANGED cfgVars
    /\ UNCHANGED notAppVars

\* lines 129-138, 148-154: process_video returned, reading the file for the
\* preview raises
MainPreviewRaises ==
    /\ mpc = "in_video"
    /\ vpc = "returned"
    /\ main_caught' = "OSError"
    /\ MainReturn(MainExceptStatus("OSError"))
    /\ UNCHANGED <<entry, cli_url, ctor_raised>>
    /\ UNCHANGED <<playlistVars, videoVars, fileVars>>
    /\ UNCHANGED cfgVars
    /\ UNCHANGED notAppVars

\* lines 125, 142-154: process_video raised
MainVideoRaised ==
    /\ mpc = "in_video"
    /\ vpc = "raised"
    /\ main_caught' = v_raised
    /\ MainReturn(MainExceptStatus(v_raised))
    /\ UNCHANGED <<entry, cli_url, ctor_raised>>
    /\ UNCHANGED <<playlistVars, videoVars, fileVars>>
    /\ UNCHANGED cfgVars
    /\ UNCHANGED notAppVars


(***************************************************************************)
(* YouTubeSubtitleSummarizer.process_playlist                              *)
(***************************************************************************)
\* line 133: extract_playlist_video_ids returns the ids in playlist order,
\* each once (helpers.py lines 157-163)
PlaylistEnumerate ==
    /\ ppc = "enumerate"
    /\ is_playlist_url(cli_url)
    /\ \E n \in 0..MaxVideos : video_ids' = [i \in 1..n |-> i]
    /\ vidx' = 1
    /\ output_files' = <<>>
    /\ ppc' = "loop"
    /\ UNCHANGED <<p_raised, attempts>>
    /\ UNCHANGED <<mainVars, videoVars, fileVars>>
    /\ UNCHANGED cfgVars
    /\ UNCHANGED notAppVars

\* lines 133, 148-150: extract_playlist_video_ids raises (not a playlist URL:
\* helpers.py line 140; the request fails: line 152)
PlaylistEnumerateRaises ==
    /\ ppc = "enumerate"
    /\ \E e \in (IF is_playlist_url(cli_url) THEN {"RequestException"} ELSE {"ValueError"}) :
           p_raised' = PlaylistExcept(e)
    /\ ppc' = "raised"
    /\ UNCHANGED <<video_ids, vidx, output_files, attempts>>
    /\ UNCHANGED <<mainVars, videoVars, fileVars>>
    /\ UNCHANGED cfgVars
    /\ UNCHANGED notAppVars

\* lines 137-140: the loop calls process_video for the next id
PlaylistCallVideo ==
    /\ ppc = "loop"
    /\ vidx <= Len(video_ids)
    /\ attempts' = Append(attempts, [vid |-> video_ids[vidx], outcome |-> "running",
                                     path |-> <<>>])
    /\ StartVideo(WatchUrl(video_ids[vidx]))
    /\ ppc' = "in_video"
    /\ UNCHANGED <<video_ids, vidx, output_files, p_raised>>
    /\ UNCHANGED <<mainVars, fileVars>>
    /\ UNCHANGED cfgVars
    /\ UNCHANGED notAppVars

\* lines 140-141: process_video returned, its path is appended
PlaylistVideoReturned ==
    /\ ppc = "in_video"
    /\ vpc = "returned"
    /\ output_files' = Append(output_files, output_file)
    /\ attempts' = [attempts EXCEPT ![Len(attempts)] =
                        [@ EXCEPT !.outcome = "returned", !.path = output_file]]
    /\ vidx' = vidx + 1
    /\ ppc' = "loop"
    /\ UNCHANGED <<video_ids, p_raised>>
    /\ UNCHANGED <<mainVars, videoVars, fileVars>>
    /\ UNCHANGED cfgVars
    /\ UNCHANGED notAppVars

\* a variant of PlaylistVideoFailed that leaves the loop
PlaylistVideoFailed_Break ==
    /\ ppc = "in_video"
    /\ vpc = "raised"
    /\ attempts' = [attempts EXCEPT ![Len(attempts)].outcome = "raised"]
    /\ vidx' = Len(video_ids) + 1
    /\ ppc' = "loop"
    /\ UNCHANGED <<video_ids, output_files, p_raised>>
    /\ UNCHANGED <<mainVars, videoVars, fileVars>>
    /\ UNCHANGED cfgVars
    /\ UNCHANGED notAppVars

\* a variant of PlaylistVideoFailed in which the failure leaves the loop
PlaylistVideoFailed_Propagates ==
    /\ ppc = "in_video"
    /\ vpc = "raised"
    /\ attempts' = [attempts EXCEPT ![Len(attempts)].outcome = "raised"]
    /\ p_raised' = PlaylistExcept(v_raised)
    /\ ppc' = "raised"
    /\ UNCHANGED <<video_ids, vidx, output_files>>
    /\ UNCHANGED <<mainVars, videoVars, fileVars>>
    /\ UNCHANGED cfgVars
    /\ UNCHANGED notAppVars

\* lines 142-145: process_video raised, the loop continues
PlaylistVideoFailed ==
    /\ ppc = "in_video"
    /\ vpc = "raised"
    /\ attempts' = [attempts EXCEPT ![Len(attempts)].outcome = "raised"]
    /\ vidx' = vidx + 1
    /\ ppc' = "loop"
    /\ UNCHANGED <<video_ids, output_files, p_raised>>
    /\ UNCHANGED <<mainVars, videoVars, fileVars>>
    /\ UNCHANGED cfgVars
    /\ UNCHANGED notAppVars

\* line 147: return output_files
PlaylistReturn ==
    /\ ppc = "loop"
    /\ vidx > Len(video_ids)
    /\ ppc' = "returned"
    /\ UNCHANGED <<video_ids, vidx, output_files, p_raised, attempts>>
    /\ UNCHANGED <<mainVars, videoVars, fileVars>>
    /\ UNCHANGED cfgVars
    /\ UNCHANGED notAppVars

(***************************************************************************)
(* YouTubeSubtitleSummarizer.process_video                                 *)
(***************************************************************************)
\* lines 111-115: exception e is caught and what the handler raises leaves
VideoRaise(e) ==
    /\ vpc' = "raised"
    /\ v_cause' = e
    /\ v_raised' = ProcessVideoExcept(e)

\* line 73: extract_video_id returns
VideoExtract ==
    /\ vpc = "extract"
    /\ extract_video_id(video_url).kind = "return"
    /\ vpc' = "title"
    /\ UNCHANGED <<video_url, video_title, pv_chunks, summaries, ci, calls,
                   final_document, output_file, v_raised, v_cause>>
    /\ UNCHANGED <<mainVars, playlistVars, fileVars>>
    /\ UNCHANGED cfgVars
    /\ UNCHANGED notAppVars

\* line 73: extract_video_id raises
VideoExtractRaises ==
    /\ vpc = "extract"
    /\ extract_video_id(video_url).kind = "raise"
    /\ VideoRaise(extract_video_id(video_url).value)
    /\ UNCHANGED <<video_url, video_title, pv_chunks, summaries, ci, calls,
                   final_document, output_file>>
    /\ UNCHANGED <<mainVars, playlistVars, fileVars>>
    /\ UNCHANGED cfgVars
    /\ UNCHANGED notAppVars

\* line 78: get_video_title_from_html (it never raises)
VideoTitle ==
    /\ vpc = "title"
    /\ \E page \in Pages : video_title' = get_video_title_from_html(page)
    /\ vpc' = "subtitles"
    /\ UNCHANGED <<video_url, pv_chunks, summaries, ci, calls,
                   final_document, output_file, v_raised, v_cause>>
    /\ UNCHANGED <<mainVars, playlistVars, fileVars>>
    /\ UNCHANGED cfgVars
    /\ UNCHANGED notAppVars

\* lines 83, 88-91: get_subtitles returns and split_text_into_chunks gives
\* the chunks, for the budget of the settings the module summarizer is bound to
VideoSubtitles ==
    /\ vpc = "subtitles"
    /\ \E n \in 0..MaxChunks : pv_chunks' = ChunkList(n)
    /\ summaries' = <<>>
    /\ ci' = 1
    /\ vpc' = "summarize"
    /\ UNCHANGED <<video_url, video_title, calls,
                   final_document, output_file, v_raised, v_cause>>
    /\ UNCHANGED <<mainVars, playlistVars, fileVars>>
    /\ budget_from' = settings_of["summarizer"]
    /\ UNCHANGED <<config_given, settings_of, tp_settings, sg_settings>>
    /\ UNCHANGED notAppVars

\* line 83: get_subtitles raises TranscriptError
VideoSubtitlesRaises ==
    /\ vpc = "subtitles"
    /\ VideoRaise("TranscriptError")
    /\ UNCHANGED <<video_url, video_title, pv_chunks, summaries, ci, calls,
                   final_document, output_file>>
    /\ UNCHANGED <<mainVars, playlistVars, fileVars>>
    /\ UNCHANGED cfgVars
    /\ UNCHANGED notAppVars

\* a variant of SummarizeCall that passes the chunk number as the total
SummarizeCall_TotalIsNumber ==
    /\ vpc = "summarize"
    /\ ci <= Len(pv_chunks)
    /\ calls' = Append(calls, [chunk |-> pv_chunks[ci], chunk_number |-> ci,
                               total_chunks |-> ci,
                               outcome |-> "running", summary |-> <<>>])
    /\ vpc' = "in_call"
    /\ UNCHANGED <<video_url, video_title, pv_chunks, summaries, ci,
                   final_document, output_file, v_raised, v_cause>>
    /\ UNCHANGED <<mainVars, playlistVars, fileVars>>
    /\ UNCHANGED cfgVars
    /\ UNCHANGED notAppVars

\* lines 96-99: summarize_chunk(chunk, i, len(chunks)) is called
SummarizeCall ==
    /\ vpc = "summarize"
    /\ ci <= Len(pv_chunks)
    /\ calls' = Append(calls, [chunk |-> pv_chunks[ci], chunk_number |-> ci,
                               total_chunks |-> Len(pv_chunks),
                               outcome |-> "running", summary |-> <<>>])
    /\ vpc' = "in_call"
    /\ UNCHANGED <<video_url, video_title, pv_chunks, summaries, ci,
                   final_document, output_file, v_raised, v_cause>>
    /\ UNCHANGED <<mainVars, playlistVars, fileVars>>
    /\ UNCHANGED cfgVars
    /\ UNCHANGED notAppVars

\* a variant of SummarizeReturns that puts the summary in front
SummarizeReturns_Prepend ==
    /\ vpc = "in_call"
    /\ summaries' = <<ServiceAnswer(calls[Len(calls)].chunk)>> \o summaries
    /\ calls' = [calls EXCEPT ![Len(calls)] =
                     [@ EXCEPT !.outcome = "returned",
                               !.summary = ServiceAnswer(calls[Len(calls)].chunk)]]
    /\ ci' = ci + 1
    /\ vpc' = "summarize"
    /\ UNCHANGED <<video_url, video_title, pv_chunks,
                   final_document, output_file, v_raised, v_cause>>
    /\ UNCHANGED <<mainVars, playlistVars, fileVars>>
    /\ UNCHANGED cfgVars
    /\ UNCHANGED notAppVars

\* lines 99-100, summary.py lines 49-63: the call returns a summary, which
\* is appended
SummarizeReturns ==
    /\ vpc = "in_call"
    /\ summaries' = Append(summaries, ServiceAnswer(calls[Len(calls)].chunk))
    /\ calls' = [calls EXCEPT ![Len(calls)] =
                     [@ EXCEPT !.outcome = "returned",
                               !.summary = ServiceAnswer(calls[Len(calls)].chunk)]]
    /\ ci' = ci + 1
    /\ vpc' = "summarize"
    /\ UNCHANGED <<video_url, video_title, pv_chunks,
                   final_document, output_file, v_raised, v_cause>>
    /\ UNCHANGED <<mainVars, playlistVars, fileVars>>
    /\ UNCHANGED cfgVars
    /\ UNCHANGED notAppVars

\* summary.py lines 45-47, 65-68: the call raises: KeyError from formatting
\* the prompt template, ProviderError from the handler of the provider call
SummarizeRaises ==
    /\ vpc = "in_call"
    /\ calls' = [calls EXCEPT ![Len(calls)].outcome = "raised"]
    /\ \E e \in {"ProviderError", "KeyError"} : VideoRaise(e)
    /\ UNCHANGED <<video_url, video_title, pv_chunks, summaries, ci,
                   final_document, output_file>>
    /\ UNCHANGED <<mainVars, playlistVars, fileVars>>
    /\ UNCHANGED cfgVars
    /\ UNCHANGED notAppVars

\* a variant of VideoMerge that writes the file at once
VideoMerge_Saves ==
    /\ vpc = "summarize"
    /\ Len(summaries) >= 1
    /\ final_document' = merge_summaries(summaries, video_title)
    /\ files' = [p \in DOMAIN files \cup {OutputPath(video_title)} |->
                    IF p = OutputPath(video_title)
                    THEN merge_summaries(summaries, video_title) ELSE files[p]]
    /\ writes' = Append(writes, OutputPath(video_title))
    /\ vpc' = IF ci > Len(pv_chunks) THEN "save" ELSE "summarize"
    /\ UNCHANGED <<video_url, video_title, pv_chunks, summaries, ci, calls,
                   output_file, v_raised, v_cause>>
    /\ UNCHANGED <<mainVars, playlistVars>>
    /\ UNCHANGED cfgVars
    /\ UNCHANGED notAppVars

\* line 104: merge_summaries
VideoMerge ==
    /\ vpc = "summarize"
    /\ ci > Len(pv_chunks)
    /\ final_document' = merge_summaries(summaries, video_title)
    /\ vpc' = "save"
    /\ UNCHANGED <<video_url, video_title, pv_chunks, summaries, ci, calls,
                   output_file, v_raised, v_cause>>
    /\ UNCHANGED <<mainVars, playlistVars, fileVars>>
    /\ UNCHANGED cfgVars
    /\ UNCHANGED notAppVars

\* lines 107-109, summary.py lines 121-130: save_summary opens the path for
\* writing, which replaces a file already there; the path is returned
VideoSave ==
    /\ vpc = "save"
    /\ output_file' = OutputPath(video_title)
    /\ files' = [p \in DOMAIN files \cup {OutputPath(video_title)} |->
                    IF p = OutputPath(video_title) THEN final_document ELSE files[p]]
    /\ writes' = Append(writes, OutputPath(video_title))
    /\ vpc' = "returned"
    /\ UNCHANGED <<video_url, video_title, pv_chunks, summaries, ci, calls,
                   final_document, v_raised, v_cause>>
    /\ UNCHANGED <<mainVars, playlistVars>>
    /\ UNCHANGED cfgVars
    /\ UNCHANGED notAppVars

\* line 107, summary.py lines 121-130: save_summary raises: before the file
\* is opened (nothing is written), or in write() after open(..., "w") has
\* emptied the file
VideoSaveRaises ==
    /\ vpc = "save"
    /\ VideoRaise("OSError")
    /\ \/ files' = files
       \/ files' = [p \in DOMAIN files \cup {OutputPath(video_title)} |->
                        IF p = OutputPath(video_title) THEN <<>> ELSE files[p]]
    /\ UNCHANGED writes
    /\ UNCHANGED <<video_url, video_title, pv_chunks, summaries, ci, calls,
                   final_document, output_file>>
    /\ UNCHANGED <<mainVars, playlistVars>>
    /\ UNCHANGED cfgVars
    /\ UNCHANGED notAppVars


(***************************************************************************)
(* Claims about the pipeline                                               *)
(***************************************************************************)
\* the summarization loop of process_video ran to its end
LoopDone == vpc \in {"save", "returned"} \/ (vpc = "raised" /\ v_cause = "OSError")

\* C11: process_video calls summarize_chunk in ascending chunk order, each
\* chunk at most once, a call starting only after the one before it has
\* returned, with the arguments (chunk i, i, N); when every call succeeds
\* each of the N chunks has been summarized exactly once (no call for no
\* chunk).
C11_CallsInChunkOrder ==
    /\ Len(calls) <= Len(pv_chunks)
    /\ \A k \in DOMAIN calls :
           /\ calls[k].chunk = pv_chunks[k]
           /\ calls[k].chunk_number = k
           /\ calls[k].total_chunks = Len(pv_chunks)
           /\ k < Len(calls) => calls[k].outcome = "returned"
    /\ LoopDone =>
           /\ Len(calls) = Len(pv_chunks)
           /\ \A k \in DOMAIN calls : calls[k].outcome = "returned"

C11_Witness ==
    /\ vpc = "returned"
    /\ Len(pv_chunks) >= 2
    /\ Len(calls) = Len(pv_chunks)

\* C12: a summarization call that fails does not end process_video: a
\* summary is recorded for the failed chunk, every chunk gets a call, and
\* the document is merged and written.
C12_FailedCallRecorded ==
    (\E k \in DOMAIN calls : calls[k].outcome = "raised") =>
        /\ vpc # "raised"
        /\ vpc = "returned" =>
               /\ Len(summaries) = Len(pv_chunks)
               /\ Len(calls) = Len(pv_chunks)
               /\ output_file \in DOMAIN files

\* the positions of the lines of one kind in a document
Positions(doc, kind) == {i \in DOMAIN doc : doc[i].kind = kind}

\* the numbers that the lines of one kind carry, in document order
RECURSIVE NumbersFrom(_, _, _)
NumbersFrom(doc, kind, i) ==
    IF i > Len(doc) THEN <<>>
    ELSE (IF doc[i].kind = kind THEN <<doc[i].n>> ELSE <<>>)
         \o NumbersFrom(doc, kind, i + 1)

Ascending(n) == [i \in 1..n |-> i]

Merged == final_document # <<>>

\* C13: for N > 1 summaries the document has exactly one table of contents,
\* with exactly N entries numbered 1..N in ascending order, all before the
\* body; the body has exactly N "Part i" headers, 1..N in order, and
\* beneath each header, before anything else, stands summary i.
C13_TocAndParts ==
    (Merged /\ Len(summaries) > 1) =>
        LET d == final_document
            N == Len(summaries)
        IN  /\ Cardinality(Positions(d, "toc_header")) = 1
            /\ NumbersFrom(d, "toc_entry", 1) = Ascending(N)
            /\ \A t \in Positions(d, "toc_header") \cup Positions(d, "toc_entry") :
                   \A b \in Positions(d, "part_header") \cup Positions(d, "summary") :
                       t < b
            /\ \A h \in Positions(d, "toc_header") : \A e \in Positions(d, "toc_entry") :
                   h < e
            /\ NumbersFrom(d, "part_header", 1) = Ascending(N)
            /\ Cardinality(Positions(d, "summary")) = N
            /\ \A p \in Positions(d, "part_header") :
                   /\ p + 2 <= Len(d)
                   /\ d[p + 1] = Blank
                   /\ d[p + 2] = Line("summary", 0, summaries[d[p].n])

C13_Witness ==
    /\ vpc = "returned"
    /\ Len(summaries) = 2
    /\ files[output_file] = final_document

\* the kinds of the lines of a document, in order
Kinds(doc) == [i \in DOMAIN doc |-> doc[i].kind]

\* C14: for exactly one summary the document has no table of contents, no
\* "Part" header and no separator: after the title and the two metadata
\* lines comes the summary.
C14_SingleSummaryPlain ==
    (Merged /\ Len(summaries) = 1) =>
        /\ Kinds(final_document) = <<"title", "blank", "generated_on", "total_sections",
                                     "blank", "summary", "blank">>
        /\ final_document[6].s = summaries[1]
        /\ final_document[4].n = 1

C14_Witness ==
    /\ vpc = "returned"
    /\ Len(summaries) = 1
    /\ video_title = DefaultTitle


\* the paths of the attempts that returned, in order
RECURSIVE ReturnedPathsFrom(_, _)
ReturnedPathsFrom(log, i) ==
    IF i > Len(log) THEN <<>>
    ELSE (IF log[i].outcome = "returned" THEN <<log[i].path>> ELSE <<>>)
         \o ReturnedPathsFrom(log, i + 1)

\* C15: process_playlist calls process_video for every extracted id exactly
\* once, in playlist order, whether or not earlier videos failed; the list
\* returned holds the output paths of exactly the videos that succeeded, in
\* playlist order.
C15_EveryVideoAttempted ==
    /\ Len(attempts) <= Len(video_ids)
    /\ \A k \in DOMAIN attempts :
           /\ attempts[k].vid = video_ids[k]
           /\ k < Len(attempts) => attempts[k].outcome \in {"returned", "raised"}
    /\ ppc = "returned" =>
           /\ Len(attempts) = Len(video_ids)
           /\ \A k \in DOMAIN attempts : attempts[k].outcome \in {"returned", "raised"}
           /\ output_files = ReturnedPathsFrom(attempts, 1)

C15_Witness ==
    /\ ppc = "returned"
    /\ Len(video_ids) >= 2
    /\ attempts[1].outcome = "raised"
    /\ attempts[2].outcome = "returned"

\* C16: whatever is raised in a step of process_video leaves it as
\* VideoProcessingError; TranscriptError, ProviderError, ValueError and
\* KeyError never leave it as themselves.
C16_OnlyVideoProcessingError ==
    /\ v_raised \in {"none", "VideoProcessingError"}
    /\ v_cause # "none" => vpc = "raised" /\ v_raised = "VideoProcessingError"
    /\ vpc = "raised" => v_raised = "VideoProcessingError"

C16_Witness ==
    /\ vpc = "raised"
    /\ v_cause = "KeyError"
    /\ calls = <<>>

\* the elements of a sequence are all different
NoDuplicates(seq) == \A i, j \in DOMAIN seq : seq[i] = seq[j] => i = j

\* C18: after process_playlist as many distinct files hold a document as
\* paths were returned, and no file of a video was written again by a later
\* video.
C18_OneFilePerVideo ==
    ppc = "returned" =>
        /\ Cardinality({p \in DOMAIN files : files[p] # <<>>}) = Len(output_files)
        /\ NoDuplicates(writes)

\* the call main made for the URL raised
ProcessingRaised ==
    \/ mpc = "exit" /\ is_playlist_url(cli_url) /\ p_raised # "none"
    \/ mpc = "exit" /\ ~is_playlist_url(cli_url) /\ v_raised # "none"

\* the call main made for the URL returned
ProcessingCompleted ==
    \/ is_playlist_url(cli_url) /\ ppc = "returned" /\ p_raised = "none"
    \/ ~is_playlist_url(cli_url) /\ vpc = "returned" /\ v_raised = "none"

\* C20: main, run on a URL, returns a non-zero status whenever constructing
\* the summarizer or processing the URL raised, and returns 0 only when
\* processing completed without raising.
C20_ExitStatus ==
    (entry = "run" /\ mpc = "exit") =>
        /\ (ctor_raised # "none" \/ ProcessingRaised) => exit_status \notin {0, -1}
        /\ exit_status = 0 => ctor_raised = "none" /\ ProcessingCompleted

C20_Witness ==
    /\ entry = "run"
    /\ mpc = "exit"
    /\ v_cause = "TranscriptError"
    /\ exit_status = 1


\* the texts of the summary lines of a document, in order
RECURSIVE SummaryLinesFrom(_, _)
SummaryLinesFrom(doc, i) ==
    IF i > Len(doc) THEN <<>>
    ELSE (IF doc[i].kind = "summary" THEN <<doc[i].s>> ELSE <<>>)
         \o SummaryLinesFrom(doc, i + 1)

\* C23: at every point of the loop of process_video the summaries are aligned
\* with the chunks: there are no more summaries than chunks, summary i is what
\* the call for chunk i returned, and the merged document holds the sections
\* in that order.
C23_SummariesAligned ==
    /\ Len(summaries) <= Len(pv_chunks)
    /\ Len(summaries) <= Len(calls)
    /\ \A i \in DOMAIN summaries :
           /\ calls[i].chunk = pv_chunks[i]
           /\ calls[i].outcome = "returned"
           /\ summaries[i] = calls[i].summary
    /\ Merged => SummaryLinesFrom(final_document, 1) = summaries

C23_Witness ==
    /\ vpc = "save"
    /\ Len(summaries) >= 2
    /\ SummaryLinesFrom(final_document, 1) = summaries
    /\ summaries[1] # summaries[2]

\* C24: process_playlist raises PlaylistError exactly when listing the video
\* ids fails (not a playlist URL, or the page cannot be fetched); the failure
\* of one video or of all of them does not make it raise, and nothing but
\* PlaylistError leaves it.
C24_PlaylistErrorOnlyFromListing ==
    /\ p_raised \in {"none", "PlaylistError"}
    /\ ppc = "raised" <=> p_raised = "PlaylistError"
    /\ ppc = "raised" => vidx = 0 /\ attempts = <<>>
    /\ ppc \in {"loop", "in_video", "returned"} => vidx >= 1 /\ p_raised = "none"
    /\ (ppc \in {"returned", "raised"} /\ ~is_playlist_url(cli_url)) => ppc = "raised"

C24_Witness ==
    /\ ppc = "returned"
    /\ Len(attempts) >= 2
    /\ \A k \in DOMAIN attempts : attempts[k].outcome = "raised"
    /\ output_files = <<>>

\* C26: with --config FILE every reader of the settings uses the instance
\* loaded from FILE: TranscriptProcessor, SummaryGenerator and the chunk
\* budget of process_video.
C26_LoadedSettingsUsed ==
    (config_given /\ settings_of["cli"] = "loaded") =>
        /\ tp_settings \in {"none", "loaded"}
        /\ sg_settings \in {"none", "loaded"}
        /\ budget_from \in {"none", "loaded"}

\* C29: the output file is written only after every chunk was summarized and
\* the summaries merged, as the last step of process_video; when anything
\* before save_summary raises, no file is created or changed.
C29_WriteOnlyAfterMerge ==
    [][ /\ (files' # files \/ writes' # writes) =>
               /\ vpc = "save"
               /\ vpc' \in {"returned", "raised"}
               /\ Len(summaries) = Len(pv_chunks)
               /\ Len(calls) = Len(pv_chunks)
               /\ \A k \in DOMAIN calls : calls[k].outcome = "returned"
               /\ final_document = merge_summaries(summaries, video_title)
               /\ vpc' = "returned" =>
                      /\ writes' = Append(writes, output_file')
                      /\ files'[output_file'] = final_document
        /\ (vpc # "raised" /\ vpc' = "raised" /\ v_cause' # "OSError") =>
               UNCHANGED <<files, writes>>
        /\ (vpc # "extract" /\ vpc' = "extract") => UNCHANGED <<files, writes>>
      ]_vars

C29_Witness ==
    /\ vpc = "raised"
    /\ v_cause = "ProviderError"
    /\ Len(calls) = 2
    /\ entry = "process_video"
    /\ files = <<>>
    /\ writes = <<>>


(***************************************************************************)
(* Specifications: one per component; the other component stands still.    *)
(***************************************************************************)
ChunkIdle ==
    /\ text = <<>>
    /\ budget = 0
    /\ enc = "words"
    /\ sentences = <<>>
    /\ si = 0
    /\ current_chunk = <<>>
    /\ chunks = <<>>
    /\ words = <<>>
    /\ wi = 0
    /\ temp_chunk = <<>>
    /\ cpc = "idle"

SelIdle ==
    /\ tracks = <<>>
    /\ listOk = TRUE
    /\ language_priority = <<>>
    /\ prefer_manual_transcripts = TRUE
    /\ spc = "idle"
    /\ li = 0
    /\ ti = 0
    /\ result = <<>>
    /\ raised = "none"
    /\ fetchedOk = <<>>
    /\ tried = <<>>

SanIdle ==
    /\ filename = <<>>
    /\ sanitized = <<>>
    /\ fpc = "idle"

UrlIdle ==
    /\ url = [hostname |-> "example.com", path |-> <<>>, v |-> FALSE, list |-> FALSE]
    /\ is_playlist = FALSE
    /\ extracted = NotCalled
    /\ upc = {"is_playlist_url", "extract_video_id"}

FmtIdle ==
    /\ transcript_data = <<>>
    /\ formatted_text = <<>>
    /\ tpc = "idle"

AppIdle ==
    /\ entry = "none"
    /\ cli_url = WatchUrl(0)
    /\ mpc = "idle"
    /\ exit_status = -1
    /\ main_caught = "none"
    /\ ctor_raised = "none"
    /\ PlaylistIdle
    /\ VideoIdle
    /\ files = <<>>
    /\ writes = <<>>
    /\ config_given = FALSE
    /\ settings_of = ImportTimeBindings
    /\ tp_settings = "none"
    /\ sg_settings = "none"
    /\ budget_from = "none"

Init == ChunkInit /\ SelIdle /\ SanIdle /\ UrlIdle /\ AppIdle /\ FmtIdle

Next == ChunkNext

Spec == Init /\ [][Next]_vars

SelectorInit == SelInit /\ ChunkIdle /\ SanIdle /\ UrlIdle /\ AppIdle /\ FmtIdle

SelectorNext == SelNext

SelectorSpec == SelectorInit /\ [][SelectorNext]_vars

SanitizeInit == SanInit /\ ChunkIdle /\ SelIdle /\ UrlIdle /\ AppIdle /\ FmtIdle

SanitizeNext == SanNext

SanitizeSpec == SanitizeInit /\ [][SanitizeNext]_vars

UrlSpecInit == UrlInit /\ ChunkIdle /\ SelIdle /\ SanIdle /\ AppIdle /\ FmtIdle

UrlSpecNext == UrlNext

UrlSpec == UrlSpecInit /\ [][UrlSpecNext]_vars

AppSpecInit == AppInit /\ ChunkIdle /\ SelIdle /\ SanIdle /\ UrlIdle /\ FmtIdle

AppNext ==
    \/ MainSpecialCommand
    \/ MainLoadConfig
    \/ MainLoadConfigRaises
    \/ MainNoConfig
    \/ MainNoUrl
    \/ MainConstruct
    \/ MainConstructRaises
    \/ MainCallPlaylist
    \/ MainCallVideo
    \/ MainPlaylistReturned
    \/ MainPlaylistRaised
    \/ MainVideoReturned
    \/ MainPreviewRaises
    \/ MainVideoRaised
    \/ PlaylistEnumerate
    \/ PlaylistEnumerateRaises
    \/ PlaylistCallVideo
    \/ PlaylistVideoReturned
    \/ PlaylistVideoFailed
    \/ PlaylistReturn
    \/ VideoExtract
    \/ VideoExtractRaises
    \/ VideoTitle
    \/ VideoSubtitles
    \/ VideoSubtitlesRaises
    \/ SummarizeCall
    \/ SummarizeReturns
    \/ SummarizeRaises
    \/ VideoMerge
    \/ VideoSave
    \/ VideoSaveRaises

AppSpec == AppSpecInit /\ [][AppNext]_vars

FormatInit == FmtInit /\ ChunkIdle /\ SelIdle /\ SanIdle /\ UrlIdle /\ AppIdle

FormatNext == FmtNext

FormatSpec == FormatInit /\ [][FormatNext]_vars

====
